---- MODULE Spec2Model ----
(***************************************************************************)
(* Chibi Garden Guardians: the per-frame simulation of src/game/entities.py *)
(* (Weapon, Bullet, Enemy, Particle, Player, GameWorld) and the menu /      *)
(* running loop of src/main.py.                                             *)
(*                                                                          *)
(* Units.  Time is counted in ticks of 1/10 ms (TICKS ticks per second), so *)
(* that elapsed * 0.01 is exact for every frame time that is a multiple of  *)
(* 10 ms.  Positions are whole pixels, velocities whole pixels per second;  *)
(* every product is truncated toward zero (TDiv).  Angles are whole degrees *)
(* and unit vectors are scaled by UNIT.                                     *)
(***************************************************************************)
EXTENDS Integers, Sequences, FiniteSets, TLC

VARIABLES
    state,          \* main.py: "menu", "running" or "quit"
    highlighted,    \* main.py: highlighted menu entry (0-based)
    world,          \* main.py: the GameWorld
    error,          \* "" or the exception that ended the program
    next_oid,       \* identity of the next object the world creates
    frame,          \* what the last GameWorld.update did (history, read by the properties)
    audio,          \* the audio.play requests of the last step, in order
    gun,            \* a Weapon driven directly through try_fire / update
    call            \* the last call made on gun (history, read by the properties)

vars == <<state, highlighted, world, error, next_oid, frame, audio, gun, call>>

program_vars == <<state, highlighted, world, error, next_oid, frame, audio>>

-----------------------------------------------------------------------------
(* Arithmetic *)

TICKS == 10 * 1000
UNIT == 10 * 1000

Max(a, b) == IF a >= b THEN a ELSE b
Min(a, b) == IF a <= b THEN a ELSE b
Abs(a) == IF a >= 0 THEN a ELSE -a

\* Division truncated toward zero.
TDiv(a, b) == IF a >= 0 THEN a \div b ELSE -((-a) \div b)

RECURSIVE SqrtIter(_, _, _)
SqrtIter(n, lo, hi) ==
    IF lo >= hi THEN lo
    ELSE LET mid == (lo + hi + 1) \div 2
         IN IF mid * mid <= n THEN SqrtIter(n, mid, hi) ELSE SqrtIter(n, lo, mid - 1)

\* floor(sqrt(n)) for 0 <= n < 2^31
ISqrt(n) == SqrtIter(n, 0, 46340)

\* 10000 * sin(a degrees), a = 0..90
SinTab == <<
    0, 175, 349, 523, 698, 872, 1045, 1219, 1392, 1564, 1736, 1908, 2079, 2250, 2419,
    2588, 2756, 2924, 3090, 3256, 3420, 3584, 3746, 3907, 4067, 4226, 4384, 4540, 4695,
    4848, 5000, 5150, 5299, 5446, 5592, 5736, 5878, 6018, 6157, 6293, 6428, 6561, 6691,
    6820, 6947, 7071, 7193, 7314, 7431, 7547, 7660, 7771, 7880, 7986, 8090, 8192, 8290,
    8387, 8480, 8572, 8660, 8746, 8829, 8910, 8988, 9063, 9135, 9205, 9272, 9336, 9397,
    9455, 9511, 9563, 9613, 9659, 9703, 9744, 9781, 9816, 9848, 9877, 9903, 9925, 9945,
    9962, 9976, 9986, 9994, 9998, 10000 >>

Sin(a) ==
    LET m == a % 360
    IN IF m <= 90 THEN SinTab[m + 1]
       ELSE IF m <= 180 THEN SinTab[180 - m + 1]
       ELSE IF m <= 270 THEN -SinTab[m - 180 + 1]
       ELSE -SinTab[360 - m + 1]

Cos(a) == Sin(a + 90)

-----------------------------------------------------------------------------
(* pygame.math.Vector2 and pygame.Rect *)

Vec(x, y) == [x |-> x, y |-> y]
VAdd(a, b) == Vec(a.x + b.x, a.y + b.y)
VSub(a, b) == Vec(a.x - b.x, a.y - b.y)

length_squared(v) == v.x * v.x + v.y * v.y

\* v.normalize(), scaled by UNIT
normalize(v) ==
    LET n2 == length_squared(v)
        f == IF n2 < 2048 THEN 1024 ELSE IF n2 < 2097152 THEN 32 ELSE 1
        len == ISqrt(f * f * n2)
    IN Vec(TDiv(f * UNIT * v.x, len), TDiv(f * UNIT * v.y, len))

\* u * k for a vector u scaled by UNIT
VScale(u, k) == Vec(TDiv(u.x * k, UNIT), TDiv(u.y * k, UNIT))

\* velocity * dt, velocity in pixels per second and dt in ticks
VStep(velocity, dt) == Vec(TDiv(velocity.x * dt, TICKS), TDiv(velocity.y * dt, TICKS))

\* Vector2(1, 0).rotate(a), scaled by UNIT
rotate(a) == Vec(Cos(a), Sin(a))

RECURSIVE AtanFrom(_, _, _)
AtanFrom(ax, ay, a) ==
    IF a = 0 \/ ay * Cos(a) >= ax * Sin(a) THEN a ELSE AtanFrom(ax, ay, a - 1)

\* the angle in 0..90 of (ax, ay), both >= 0 and not both 0, in whole degrees
Atan1(ax, ay) == AtanFrom(ax, ay, 90)

Atan2Deg(v) ==
    LET a == Atan1(Abs(v.x), Abs(v.y))
    IN IF v.x >= 0 /\ v.y >= 0 THEN a
       ELSE IF v.x < 0 /\ v.y >= 0 THEN 180 - a
       ELSE IF v.x < 0 THEN a - 180
       ELSE -a

\* v.angle_to(Vector2(1, 0))
angle_to(v) == -Atan2Deg(v)

Rect(left, top, width, height) == [left |-> left, top |-> top, width |-> width, height |-> height]

collidepoint(r, p) ==
    /\ r.left <= p.x /\ p.x < r.left + r.width
    /\ r.top <= p.y /\ p.y < r.top + r.height

colliderect(a, b) ==
    /\ a.left < b.left + b.width /\ b.left < a.left + a.width
    /\ a.top < b.top + b.height /\ b.top < a.top + a.height

-----------------------------------------------------------------------------
(* game/settings.py *)

SCREEN_WIDTH == 960
SCREEN_HEIGHT == 540
PLAYER_SPEED == 240

ENEMY_TYPES ==
    [n \in {"Sproutling", "Root Beast", "Sporeshroom"} |->
        CASE n = "Sproutling" -> [speed |-> 100, health |-> 30, color |-> <<120, 255, 120>>, size |-> 26]
          [] n = "Root Beast" -> [speed |-> 70, health |-> 60, color |-> <<205, 120, 60>>, size |-> 36]
          [] n = "Sporeshroom" -> [speed |-> 140, health |-> 25, color |-> <<180, 160, 255>>, size |-> 22]]

\* list(settings.ENEMY_TYPES.keys())
ENEMY_NAMES == <<"Sproutling", "Root Beast", "Sporeshroom">>

\* cooldown in ticks: 0.25 s, 0.6 s, 0.9 s
WEAPON_DEFS ==
    [n \in {"Seed Blaster", "Thorn Fork", "Solar Beam"} |->
        CASE n = "Seed Blaster" ->
                [color |-> <<255, 235, 120>>, cooldown |-> 2500, bullet_speed |-> 520,
                 bullet_damage |-> 15, spread |-> 0, projectiles |-> 1]
          [] n = "Thorn Fork" ->
                [color |-> <<120, 255, 120>>, cooldown |-> 6000, bullet_speed |-> 420,
                 bullet_damage |-> 12, spread |-> 12, projectiles |-> 3]
          [] n = "Solar Beam" ->
                [color |-> <<255, 180, 80>>, cooldown |-> 9000, bullet_speed |-> 620,
                 bullet_damage |-> 28, spread |-> 4, projectiles |-> 2, piercing |-> 1]]

\* list(settings.WEAPON_DEFS.keys())
WEAPON_NAMES == <<"Seed Blaster", "Thorn Fork", "Solar Beam">>

PARTICLE_COLORS == << <<255, 180, 80>>, <<255, 255, 160>>, <<120, 255, 120>>, <<180, 160, 255>> >>

-----------------------------------------------------------------------------
(* Weapon *)

\* settings.WEAPON_DEFS[name] raises KeyError
create_weapon_raises(name) == name \notin DOMAIN WEAPON_DEFS

create_weapon(name) ==
    LET info == WEAPON_DEFS[name]
    IN [name |-> name,
        color |-> info.color,
        cooldown |-> info.cooldown,
        bullet_speed |-> info.bullet_speed,
        bullet_damage |-> info.bullet_damage,
        spread |-> info.spread,
        projectiles |-> info.projectiles,
        pierce |-> IF "piercing" \in DOMAIN info THEN info.piercing ELSE 0,
        timer |-> 0]

\* Bullet(position, velocity, color, damage, pierce=...): radius 6, alive True.
\* oid is the object's identity, given by whoever keeps the bullet.
Bullet(position, velocity, color, damage, pierce) ==
    [oid |-> 0, position |-> position, velocity |-> velocity, color |-> color,
     damage |-> damage, radius |-> 6, pierce |-> pierce, alive |-> TRUE]

\* the direction try_fire aims along
AimDirection(position, target) ==
    LET direction == VSub(target, position)
    IN IF length_squared(direction) = 0 THEN Vec(1, 0) ELSE direction

\* ShotAngle with the step taken over projectiles instead of projectiles - 1
ShotAngle_StepOverCount(w, base_angle, i) ==
    base_angle - w.spread \div 2 + i * (w.spread \div w.projectiles)

\* the angle of shot i (0-based) in Weapon.try_fire
ShotAngle(w, base_angle, i) ==
    LET spread_step == IF w.projectiles > 1
                       THEN w.spread \div Max(1, w.projectiles - 1)
                       ELSE 0
        start_angle == base_angle - w.spread \div 2
    IN start_angle + i * spread_step

\* a try_fire that is never turned away
Gated_Never(w) == FALSE

\* the cooldown gate of Weapon.try_fire: the call returns [] at once
Gated(w) == w.timer > 0

\* Weapon.try_fire: the bullets returned and the weapon afterwards
try_fire(w, position, target) ==
    IF Gated(w)
    THEN [bullets |-> <<>>, weapon |-> w]
    ELSE LET base_angle == angle_to(AimDirection(position, target))
         IN [bullets |->
                [k \in 1..w.projectiles |->
                    LET angle == ShotAngle(w, base_angle, k - 1)
                        vector == rotate(-angle)
                    IN Bullet(position, VScale(vector, w.bullet_speed), w.color,
                              w.bullet_damage, w.pierce)],
             weapon |-> [w EXCEPT !.timer = w.cooldown]]

\* Weapon.update without the floor at 0
Weapon_update_NoFloor(w, dt) == [w EXCEPT !.timer = w.timer - dt]

\* Weapon.update
Weapon_update(w, dt) == [w EXCEPT !.timer = Max(0, w.timer - dt)]

-----------------------------------------------------------------------------
(* Particle, Bullet, Enemy, Player *)

\* Particle.update
Particle_update(p, dt) ==
    [p EXCEPT !.position = VAdd(p.position, VStep(p.velocity, dt)),
              !.lifetime = p.lifetime - dt,
              !.radius = Max(0, p.radius - TDiv(40 * dt, TICKS))]

\* Bullet.update
Bullet_update(b, dt, bounds) ==
    IF ~b.alive THEN b
    ELSE LET position == VAdd(b.position, VStep(b.velocity, dt))
         IN [b EXCEPT !.position = position,
                      !.alive = collidepoint(bounds, position)]

\* Enemy.update
Enemy_update(e, dt, player_pos) ==
    LET d == VSub(player_pos, e.position)
        velocity == IF length_squared(d) > 0 THEN VScale(normalize(d), e.speed) ELSE d
    IN [e EXCEPT !.velocity = velocity,
                 !.position = VAdd(e.position, VStep(velocity, dt))]

\* Enemy.rect (size is even and positions are whole pixels, so int() changes nothing)
Enemy_rect(e) ==
    Rect(e.position.x - e.size \div 2, e.position.y - e.size \div 2, e.size, e.size)

\* damage that leaves no mark
take_damage_Graze(e, amount) == e

\* Enemy.take_damage
take_damage(e, amount) == [e EXCEPT !.health = e.health - amount]

\* an enemy that never counts as dead
is_dead_Never(e) == FALSE

\* Enemy.is_dead
is_dead(e) == e.health <= 0

\* Player(position, speed): radius 24, weapon None (the empty sequence), health 100
Player(position, speed) ==
    [position |-> position, speed |-> speed, radius |-> 24,
     color |-> <<120, 200, 120>>, weapon |-> <<>>, health |-> 100]

\* The keys pygame.key.get_pressed() reports, W/S/A/D merged with the arrows.
Keys(up, down, left, right) == [up |-> up, down |-> down, left |-> left, right |-> right]

\* Player.handle_input
handle_input(p, keys, dt) ==
    LET velocity == Vec((IF keys.right THEN 1 ELSE 0) - (IF keys.left THEN 1 ELSE 0),
                        (IF keys.down THEN 1 ELSE 0) - (IF keys.up THEN 1 ELSE 0))
        scaled == IF length_squared(velocity) > 0
                  THEN VScale(normalize(velocity), p.speed)
                  ELSE velocity
    IN [p EXCEPT !.position = VAdd(p.position, VStep(scaled, dt))]

\* Player.keep_in_bounds without the clamp
keep_in_bounds_NoClamp(p, bounds) == p

\* Player.keep_in_bounds
keep_in_bounds(p, bounds) ==
    [p EXCEPT !.position =
        Vec(Max(bounds.left + p.radius,
                Min(bounds.left + bounds.width - p.radius, p.position.x)),
            Max(bounds.top + p.radius,
                Min(bounds.top + bounds.height - p.radius, p.position.y)))]

-----------------------------------------------------------------------------
(* GameWorld *)

\* GameWorld.set_weapon
set_weapon(w, weapon) ==
    [w EXCEPT !.weapon_name = weapon.name, !.player.weapon = <<weapon>>]

\* GameWorld.set_weapon_by_name
set_weapon_by_name(w, name) == set_weapon(w, create_weapon(name))

\* GameWorld.__init__ raises: `if weapon_name:` lets None and "" pass
GameWorld_raises(name) == name # "" /\ create_weapon_raises(name)

\* GameWorld.__init__; weapon_name "" is None
GameWorld(name) ==
    LET w == [bounds |-> Rect(0, 0, SCREEN_WIDTH, SCREEN_HEIGHT),
              player |-> Player(Vec(SCREEN_WIDTH \div 2, SCREEN_HEIGHT \div 2), PLAYER_SPEED),
              enemies |-> <<>>,
              bullets |-> <<>>,
              particles |-> <<>>,
              elapsed |-> 0,
              spawn_timer |-> 0,
              spawn_interval |-> 14000,
              score |-> 0,
              weapon_name |-> ""]
    IN IF name # "" THEN set_weapon_by_name(w, name) ELSE w

\* One outcome of the random draws of a particle: velocity, index into the palette,
\* lifetime (ticks) and radius.  A burst uses one outcome for its 12 particles.
spawn_particles(position, color, draw) ==
    LET palette == PARTICLE_COLORS \o <<color>>
    IN [k \in 1..12 |->
           [position |-> position, velocity |-> draw.velocity,
            color |-> palette[draw.choice], lifetime |-> draw.lifetime,
            radius |-> draw.radius]]

\* the sequence without its elements of identity oid
Remove(seq, oid) == SelectSeq(seq, LAMBDA x : x.oid # oid)

\* `x in seq`, by identity
Contains(seq, oid) == \E k \in 1..Len(seq) : seq[k].oid = oid

\* the sequence with the object of x's identity replaced by x (a field assignment)
Store(seq, x) == [k \in 1..Len(seq) |-> IF seq[k].oid = x.oid THEN x ELSE seq[k]]

\* index of the first live bullet inside rect, 0 if there is none
FirstHit(bs, rect) ==
    LET inside == {k \in 1..Len(bs) : bs[k].alive /\ collidepoint(rect, bs[k].position)}
    IN IF inside = {} THEN 0 ELSE CHOOSE k \in inside : \A m \in inside : k <= m

\* the number of live bullets inside rect
LiveInside(bs, rect) ==
    Cardinality({k \in 1..Len(bs) : bs[k].alive /\ collidepoint(rect, bs[k].position)})

\* handle_collisions, lines 249-255: the player-contact check of one enemy.
\* c carries the world's enemies, bullets, particles, score and the player's health.
ContactCheck(c, enemy, player_rect, draw) ==
    IF colliderect(Enemy_rect(enemy), player_rect)
    THEN LET hurt == take_damage(enemy, enemy.health)
         IN [c EXCEPT !.health = @ - 10,
                      !.particles = @ \o spawn_particles(enemy.position, enemy.color, draw),
                      !.audio = Append(@, "hit"),
                      !.contacts = Append(@, enemy.oid),
                      !.enemies = IF is_dead(hurt) /\ Contains(@, enemy.oid)
                                  THEN Remove(@, enemy.oid)
                                  ELSE Store(@, hurt)]
    ELSE c

\* the enemy object after the player-contact check
AfterContact(enemy, player_rect) ==
    IF colliderect(Enemy_rect(enemy), player_rect)
    THEN take_damage(enemy, enemy.health)
    ELSE enemy

\* handle_collisions, lines 258-268: bullet number j of the list hits the enemy.
\* enemies.remove of an enemy that is no longer in the list raises ValueError and
\* ends the pass there, before the bullet's pierce or alive is touched.
BulletHit(c, enemy, j, draw) ==
    LET bullet == c.bullets[j]
        hurt == take_damage(enemy, bullet.damage)
        present == Contains(c.enemies, enemy.oid)
        raises == is_dead(hurt) /\ ~present
        after == IF raises THEN bullet
                 ELSE IF bullet.pierce > 0
                 THEN [bullet EXCEPT !.pierce = bullet.pierce - 1]
                 ELSE [bullet EXCEPT !.alive = FALSE]
        hit == [enemy |-> enemy.oid, bullet |-> bullet.oid,
                inside |-> LiveInside(c.bullets, Enemy_rect(enemy)),
                in_world |-> present, killed |-> is_dead(hurt),
                pierce |-> bullet.pierce,
                alive_after |-> after.alive, pierce_after |-> after.pierce]
        c1 == [c EXCEPT !.enemies = Store(@, hurt),
                        !.particles = @ \o spawn_particles(bullet.position, bullet.color, draw),
                        !.audio = Append(@, "hit"),
                        !.hits = Append(@, hit)]
        c2 == IF is_dead(hurt)
              THEN [c1 EXCEPT !.score = @ + 5,
                              !.particles = @ \o spawn_particles(enemy.position, enemy.color, draw),
                              !.enemies = Remove(@, enemy.oid),
                              !.error = IF present THEN "" ELSE "ValueError"]
              ELSE c1
    IN [c2 EXCEPT !.bullets[j] = after]

RECURSIVE BulletCheck_From(_, _, _, _)
BulletCheck_From(c, enemy, j, draw) ==
    IF j > Len(c.bullets) \/ c.error # "" THEN c
    ELSE IF c.bullets[j].alive /\ collidepoint(Enemy_rect(enemy), c.bullets[j].position)
    THEN BulletCheck_From(BulletHit(c, enemy, j, draw),
                          take_damage(enemy, c.bullets[j].damage), j + 1, draw)
    ELSE BulletCheck_From(c, enemy, j + 1, draw)

\* the bullet loop without its break: every live bullet inside the box hits
BulletCheck_NoBreak(c, enemy, draw) == BulletCheck_From(c, enemy, 1, draw)

\* handle_collisions, lines 256-269: the bullet loop of one enemy, which breaks at the
\* first live bullet inside the enemy's box
BulletCheck(c, enemy, draw) ==
    LET j == FirstHit(c.bullets, Enemy_rect(enemy))
    IN IF j = 0 THEN c ELSE BulletHit(c, enemy, j, draw)

\* handle_collisions, the body of `for enemy in list(self.enemies)` for one enemy
CollideEnemy(c, enemy, player_rect, draw) ==
    BulletCheck(ContactCheck(c, enemy, player_rect, draw),
                AfterContact(enemy, player_rect), draw)

RECURSIVE CollideFrom(_, _, _, _, _)
CollideFrom(c, snapshot, i, player_rect, draw) ==
    IF i > Len(snapshot) \/ c.error # "" THEN c
    ELSE CollideFrom(CollideEnemy(c, snapshot[i], player_rect, draw),
                     snapshot, i + 1, player_rect, draw)

\* GameWorld.handle_collisions
handle_collisions(c, position, radius, draw) ==
    LET player_rect == Rect(position.x - radius, position.y - radius, radius * 2, radius * 2)
        done == CollideFrom(c, c.enemies, 1, player_rect, draw)
    IN IF done.error = "" /\ done.health <= 0
       THEN [done EXCEPT !.health = 0]
       ELSE done

\* Enemy(...) as spawn_enemy_wave builds it from one draw: the archetype, the edge and
\* the random coordinate along that edge
SpawnEnemy(draw, oid) ==
    LET info == ENEMY_TYPES[draw.type_name]
        pos == CASE draw.spawn_edge = "top" -> Vec(draw.coord, -info.size)
                 [] draw.spawn_edge = "bottom" -> Vec(draw.coord, SCREEN_HEIGHT + info.size)
                 [] draw.spawn_edge = "left" -> Vec(-info.size, draw.coord)
                 [] OTHER -> Vec(SCREEN_WIDTH + info.size, draw.coord)
    IN [oid |-> oid, position |-> pos, velocity |-> Vec(0, 0), speed |-> info.speed,
        health |-> info.health, max_health |-> info.health, color |-> info.color,
        size |-> info.size, name |-> draw.type_name]

\* a wave that never grows
SpawnCount_One(elapsed) == 1

\* spawn_count of spawn_enemy_wave
SpawnCount(elapsed) == 1 + elapsed \div (12 * TICKS)

\* GameWorld.spawn_enemy_wave: the enemies list afterwards; draws[k] is the k-th
\* enemy's random outcome
spawn_enemy_wave(w, draws, oid) ==
    w.enemies \o [k \in 1..SpawnCount(w.elapsed) |-> SpawnEnemy(draws[k], oid + k - 1)]

\* a trigger that does not look at the player's health
Pulls_Undead(mouse_pressed, weapon, health) == mouse_pressed /\ weapon # <<>>

\* GameWorld.update, line 215: whether the frame calls try_fire; weapon is <<>> for
\* a player without one
Pulls(mouse_pressed, weapon, health) == mouse_pressed /\ weapon # <<>> /\ health > 0

\* GameWorld.update, lines 206-229: everything up to and including handle_collisions.
\* in is the input the frame polls (keys, mouse_pos, mouse_pressed), draw the outcome
\* of the particle draws.
UpdateCombat(w, dt, in, draw, oid) ==
    LET moved == keep_in_bounds(handle_input(w.player, in.keys, dt), w.bounds)
        cooled == IF moved.weapon # <<>> THEN <<Weapon_update(moved.weapon[1], dt)>> ELSE <<>>
        pulls == Pulls(in.mouse_pressed, cooled, moved.health)
        shot == IF pulls THEN try_fire(cooled[1], moved.position, in.mouse_pos)
                ELSE [bullets |-> <<>>, weapon |-> <<>>]
        new_bullets == [k \in 1..Len(shot.bullets) |-> [shot.bullets[k] EXCEPT !.oid = oid + k - 1]]
        armed == [moved EXCEPT !.weapon = IF pulls THEN <<shot.weapon>> ELSE cooled]
        flown == [k \in 1..(Len(w.bullets) + Len(new_bullets)) |->
                    Bullet_update((w.bullets \o new_bullets)[k], dt, w.bounds)]
        chased == [k \in 1..Len(w.enemies) |-> Enemy_update(w.enemies[k], dt, armed.position)]
        c == handle_collisions(
                [enemies |-> chased,
                 bullets |-> SelectSeq(flown, LAMBDA b : b.alive),
                 particles |-> w.particles,
                 score |-> w.score,
                 health |-> armed.health,
                 audio |-> IF Len(new_bullets) > 0 THEN <<"shoot">> ELSE <<>>,
                 hits |-> <<>>,
                 contacts |-> <<>>,
                 error |-> ""],
                armed.position, armed.radius, draw)
    IN [world |-> [w EXCEPT !.elapsed = w.elapsed + dt,
                            !.player = [armed EXCEPT !.health = c.health],
                            !.enemies = c.enemies,
                            !.bullets = c.bullets,
                            !.particles = c.particles,
                            !.score = c.score],
        error |-> c.error,
        audio |-> c.audio,
        next_oid |-> oid + Len(new_bullets),
        frame |-> [op |-> "update", n |-> 0, kills |-> 0, spent |-> {}, spent_before |-> {},
                   damaged |-> {}, damaged_before |-> {}, waited |-> -1, since |-> -1,
                   dt |-> dt, health_before |-> w.player.health,
                   timer_before |-> IF w.player.weapon # <<>> THEN w.player.weapon[1].timer ELSE 0,
                   pressed |-> in.mouse_pressed,
                   fired |-> Len(new_bullets), hits |-> c.hits, contacts |-> c.contacts,
                   spawned |-> 0]]

\* a player that counts as alive whatever its health
player_alive_Always(w) == TRUE

\* player_alive of GameWorld.update
player_alive(w) == w.player.health > 0

\* a reset value without the floor of 0.4 s
SpawnDelay_NoFloor(spawn_interval, elapsed) == spawn_interval - elapsed \div 100

\* the value spawn_timer is reset to after a wave:
\* max(0.4, self.spawn_interval - self.elapsed * 0.01)
SpawnDelay(spawn_interval, elapsed) == Max(4000, spawn_interval - elapsed \div 100)

\* a spawn timer that never runs out
WaveDue_Never(spawn_timer, dt) == FALSE

\* GameWorld.update, lines 240-241: spawn_timer -= dt, then whether it is <= 0
WaveDue(spawn_timer, dt) == spawn_timer - dt <= 0

\* whether the frame goes on to spawn a wave (lines 235-241)
Spawns(r, dt) ==
    /\ r.error = ""
    /\ player_alive(r.world)
    /\ WaveDue(r.world.spawn_timer, dt)

\* GameWorld.update, lines 231-243, after the combat pass r: the particles, and the
\* wave spawner while the player is alive
UpdateSpawn(r, dt, wave) ==
    IF r.error # "" THEN r
    ELSE LET w == r.world
             aged == [k \in 1..Len(w.particles) |-> Particle_update(w.particles[k], dt)]
             w1 == [w EXCEPT !.particles = SelectSeq(aged, LAMBDA p : p.lifetime > 0 /\ p.radius > 0)]
         IN IF ~player_alive(w1) THEN [r EXCEPT !.world = w1]
            ELSE IF WaveDue(w1.spawn_timer, dt)
            THEN [r EXCEPT !.world = [w1 EXCEPT
                                        !.enemies = spawn_enemy_wave(w1, wave, r.next_oid),
                                        !.spawn_timer = SpawnDelay(w1.spawn_interval, w1.elapsed)],
                           !.next_oid = r.next_oid + SpawnCount(w1.elapsed),
                           !.frame.spawned = SpawnCount(w1.elapsed)]
            ELSE [r EXCEPT !.world = [w1 EXCEPT !.spawn_timer = w1.spawn_timer - dt]]

\* GameWorld.update
GameWorld_update(w, dt, in, draw, wave, oid) ==
    UpdateSpawn(UpdateCombat(w, dt, in, draw, oid), dt, wave)

\* a reset that forgets the weapon
reset_Unarmed(w) == GameWorld("")

\* GameWorld.reset
reset(w) == GameWorld(w.weapon_name)

-----------------------------------------------------------------------------
(* The inputs a frame polls and the outcomes of its random draws *)

\* the number of frames the model follows a world for
MaxFrames == 12

\* frame times clock.tick can report, in ticks: 100 ms
Dts == {1000}

\* held movement keys: none, up
KeySets == {Keys(FALSE, FALSE, FALSE, FALSE), Keys(TRUE, FALSE, FALSE, FALSE)}

\* pygame.mouse.get_pos(): the top of the window above the arena's centre
MouseTargets == {Vec(SCREEN_WIDTH \div 2, 0)}

Inputs ==
    {[keys |-> k, mouse_pos |-> m, mouse_pressed |-> b] :
        k \in KeySets, m \in MouseTargets, b \in BOOLEAN}

\* random.uniform / random.choice outcomes of spawn_particles
ParticleDraws == {[velocity |-> Vec(60, -60), choice |-> 5, lifetime |-> 4000, radius |-> 4]}

\* random.choices / random.choice / random.randint outcomes of one spawned enemy
SpawnDraws ==
    {[type_name |-> "Sproutling", spawn_edge |-> "top", coord |-> SCREEN_WIDTH \div 2]}

\* the outcomes of a wave of n enemies: all but the last enemy share one draw
WaveDraws(draws, n) ==
    {[k \in 1..n |-> IF k < n THEN a ELSE b] : a \in draws, b \in draws}

\* the number of enemies a frame's bullets killed: hits that took an enemy of the
\* world to health <= 0
BulletKills(hits) ==
    Cardinality({k \in 1..Len(hits) : hits[k].killed /\ hits[k].in_world})

\* the (bullet, enemy) pairs of a frame's hits
Damaged(hits) == {<<hits[k].bullet, hits[k].enemy>> : k \in 1..Len(hits)}

\* the time since the last frame that added bullets, after a frame of dt that added
\* `fired`: -1 while no frame has, and counted no further than the cooldown
Since(since, dt, fired, weapon) ==
    IF fired > 0 THEN 0
    ELSE IF since < 0 \/ weapon = <<>> THEN -1
    ELSE Min(since + dt, weapon[1].cooldown)

\* the bullets of a frame's hits that had no pierce left
Spent(hits) == {hits[k].bullet : k \in {m \in 1..Len(hits) : hits[m].pierce = 0}}

NoFrame ==
    [op |-> "", n |-> 0, kills |-> 0, spent |-> {}, spent_before |-> {},
     damaged |-> {}, damaged_before |-> {}, waited |-> -1, since |-> -1, dt |-> 0, health_before |-> 100, timer_before |-> 0, pressed |-> FALSE,
     fired |-> 0, hits |-> <<>>, contacts |-> <<>>, spawned |-> 0]

\* No call yet.  timer is the weapon's timer before the call, ret what try_fire
\* returned, waited the time update has counted off since the last try_fire that
\* returned bullets (before the call, -1 if there was none, capped at the cooldown)
\* and since the same after the call.
NoCall == [op |-> "", name |-> "", timer |-> 0, ret |-> <<>>, position |-> Vec(0, 0),
           target |-> Vec(0, 0), waited |-> -1, since |-> -1]

-----------------------------------------------------------------------------
(* main.py: the menu / running loop *)

Init ==
    /\ state = "menu"
    /\ highlighted = 0
    /\ world = GameWorld("")
    /\ error = ""
    /\ next_oid = 1
    /\ frame = NoFrame
    /\ audio = <<>>
    /\ gun = create_weapon("Seed Blaster")
    /\ call = NoCall

Running == state # "quit" /\ error = ""

\* pygame.QUIT, or ESCAPE / Q in the menu
Quit ==
    /\ Running
    /\ state' = "quit"
    /\ audio' = <<>>
    /\ UNCHANGED <<highlighted, world, error, next_oid, frame, gun, call>>

\* the highlighted entry after a menu key
Highlight(key) ==
    CASE key = "UP" -> (highlighted - 1) % Len(WEAPON_NAMES)
      [] key = "DOWN" -> (highlighted + 1) % Len(WEAPON_NAMES)
      [] key = "1" -> 0
      [] key = "2" -> Min(1, Len(WEAPON_NAMES) - 1)
      [] key = "3" -> Min(2, Len(WEAPON_NAMES) - 1)
      [] OTHER -> highlighted

\* a KEYDOWN event in state "menu"
MenuKey(key) ==
    /\ Running
    /\ state = "menu"
    /\ highlighted' = Highlight(key)
    /\ IF key \in {"RETURN", "1", "2", "3"}
       THEN /\ world' = GameWorld(WEAPON_NAMES[highlighted' + 1])
            /\ next_oid' = 1
            /\ audio' = <<"power">>
            /\ state' = "running"
       ELSE /\ audio' = <<>>
            /\ UNCHANGED <<world, next_oid, state>>
    /\ frame' = NoFrame
    /\ UNCHANGED <<error, gun, call>>

\* K_ESCAPE in state "running"
RunningEscape ==
    /\ Running
    /\ state = "running"
    /\ state' = "menu"
    /\ world' = GameWorld("")
    /\ next_oid' = 1
    /\ audio' = <<"power">>
    /\ frame' = NoFrame
    /\ UNCHANGED <<highlighted, error, gun, call>>

\* an R key that resets the world whatever the player's health
RunningR_Always ==
    /\ Running
    /\ state = "running"
    /\ world' = reset(world)
    /\ next_oid' = 1
    /\ audio' = IF world.weapon_name # "" THEN <<"power">> ELSE <<>>
    /\ frame' = [NoFrame EXCEPT !.op = "reset"]
    /\ UNCHANGED <<state, highlighted, error, gun, call>>

\* K_r in state "running"
RunningR ==
    /\ Running
    /\ state = "running"
    /\ IF world.player.health <= 0
       THEN /\ world' = reset(world)
            /\ next_oid' = 1
            /\ audio' = IF world.weapon_name # "" THEN <<"power">> ELSE <<>>
            /\ frame' = [NoFrame EXCEPT !.op = "reset"]
       ELSE /\ audio' = <<>>
            /\ UNCHANGED <<world, next_oid, frame>>
    /\ UNCHANGED <<state, highlighted, error, gun, call>>

\* world.update(dt) in state "running", the rest of the loop body.  frame keeps, next
\* to what this update did, the count of updates of this world (n), of the enemies
\* its bullets killed (kills), the bullets that hit with no pierce left (spent), the
\* (bullet, enemy) pairs of its hits (damaged) and the time since the last frame that
\* added bullets, before this frame (waited) and after it (since).
Frame(dt, in, draw, spawn_draws) ==
    /\ Running
    /\ state = "running"
    /\ \E r \in {UpdateCombat(world, dt, in, draw, next_oid)} :
       \E wave \in (IF Spawns(r, dt)
                    THEN WaveDraws(spawn_draws, SpawnCount(r.world.elapsed))
                    ELSE {<<>>}) :
       \E u \in {UpdateSpawn(r, dt, wave)} :
            /\ world' = u.world
            /\ error' = u.error
            /\ next_oid' = u.next_oid
            /\ frame' = [u.frame EXCEPT !.n = frame.n + 1,
                                        !.kills = frame.kills + BulletKills(u.frame.hits),
                                        !.spent = frame.spent \cup Spent(u.frame.hits),
                                        !.spent_before = frame.spent,
                                        !.damaged = frame.damaged \cup Damaged(u.frame.hits),
                                        !.damaged_before = frame.damaged,
                                        !.waited = frame.since,
                                        !.since = Since(frame.since, dt, u.frame.fired,
                                                        u.world.player.weapon)]
            /\ audio' = u.audio
    /\ UNCHANGED <<state, highlighted, gun, call>>

Update ==
    /\ frame.n < MaxFrames
    /\ \E dt \in Dts, in \in Inputs, draw \in ParticleDraws : Frame(dt, in, draw, SpawnDraws)

Next ==
    \/ Quit
    \/ \E key \in {"UP", "DOWN", "1", "2", "3", "RETURN"} : MenuKey(key)
    \/ RunningEscape
    \/ RunningR
    \/ Update

Spec == Init /\ [][Next]_vars

-----------------------------------------------------------------------------
(* A swarm: a stall of two minutes makes the next wave eleven enemies strong *)

\* the number of frames the model follows a swarm for
MaxSwarmFrames == 3

\* frame times in ticks: 0.1 s and 2.5 s, and for the first frame of a world also a
\* stall of 120 s
SwarmDts(n) == IF n = 0 THEN {1000, 25000, 1200000} ELSE {1000, 25000}

\* no key held, the mouse at the bottom of the window under the arena's centre
SwarmInputs ==
    {[keys |-> Keys(FALSE, FALSE, FALSE, FALSE),
      mouse_pos |-> Vec(SCREEN_WIDTH \div 2, SCREEN_HEIGHT - 1),
      mouse_pressed |-> b] : b \in BOOLEAN}

\* Sproutlings above and below the arena's centre
SwarmSpawnDraws ==
    {[type_name |-> "Sproutling", spawn_edge |-> e, coord |-> SCREEN_WIDTH \div 2] :
        e \in {"top", "bottom"}}

\* the number of frames more the model follows a dead player for
DeadFrames == 2

UpdateSwarm ==
    /\ \/ frame.n < MaxSwarmFrames
       \/ world.player.health <= 0 /\ frame.n < MaxSwarmFrames + DeadFrames
    /\ \E dt \in SwarmDts(frame.n), in \in SwarmInputs, draw \in ParticleDraws :
          Frame(dt, in, draw, SwarmSpawnDraws)

NextSwarm ==
    \/ MenuKey("2")
    \/ RunningR
    \/ UpdateSwarm

SpecSwarm == Init /\ [][NextSwarm]_vars

-----------------------------------------------------------------------------
(* A last stand: a swarm of eleven whose last enemy arrives one frame late *)

\* the number of frames the model follows a last stand for
MaxStandFrames == 4

\* frame times in ticks: a stall of 120 s, then 2.55 s, then frames of 50 ms
StandDts(n) == IF n = 0 THEN {1200000} ELSE IF n = 1 THEN {25500} ELSE {500}

\* Sproutlings above the arena's centre, and below it 40 px and 80 px to the right
StandSpawnDraws ==
    {[type_name |-> "Sproutling", spawn_edge |-> "top", coord |-> SCREEN_WIDTH \div 2],
     [type_name |-> "Sproutling", spawn_edge |-> "bottom", coord |-> SCREEN_WIDTH \div 2 + 40],
     [type_name |-> "Sproutling", spawn_edge |-> "bottom", coord |-> SCREEN_WIDTH \div 2 + 80]}

UpdateStand ==
    /\ frame.n < MaxStandFrames
    /\ \E dt \in StandDts(frame.n), in \in SwarmInputs, draw \in ParticleDraws :
          Frame(dt, in, draw, StandSpawnDraws)

NextStand ==
    \/ MenuKey("2")
    \/ UpdateStand

SpecStand == Init /\ [][NextStand]_vars

-----------------------------------------------------------------------------
(* The whole loop around a short game: a swarm from above ends it in three frames *)

\* the number of frames the model follows a short game for
MaxLoopFrames == 3

\* frame times in ticks: 0.1 s or a stall of 120 s, then 2.5 s, then frames of 0.1 s
LoopDts(n) == IF n = 0 THEN {1000, 1200000} ELSE IF n = 1 THEN {25000} ELSE {1000}

UpdateLoop ==
    /\ frame.n < MaxLoopFrames
    /\ \E dt \in LoopDts(frame.n), in \in SwarmInputs, draw \in ParticleDraws :
          Frame(dt, in, draw, SpawnDraws)

NextLoop ==
    \/ Quit
    \/ \E key \in {"UP", "DOWN", "1", "2", "3", "RETURN"} : MenuKey(key)
    \/ RunningEscape
    \/ RunningR
    \/ UpdateLoop

SpecLoop == Init /\ [][NextLoop]_vars

-----------------------------------------------------------------------------
(* A duel: one Sproutling 100 px east of the player, who keeps firing east *)

\* the number of frames the model follows a duel for
MaxDuelFrames == 30

\* the frame time of a duel, in ticks: 1/60 s or 1/20 s
DuelDts == {167, 500}

DuelWeapons == {"Seed Blaster", "Solar Beam"}

\* no key held, the mouse straight east of the player, its button held
DuelInput ==
    [keys |-> Keys(FALSE, FALSE, FALSE, FALSE),
     mouse_pos |-> Vec(SCREEN_WIDTH - 1, SCREEN_HEIGHT \div 2),
     mouse_pressed |-> TRUE]

\* what the waves of a duel bring: enemies from the top, the left and the bottom
DuelSpawnDraws ==
    {[type_name |-> "Sproutling", spawn_edge |-> "top", coord |-> 0],
     [type_name |-> "Root Beast", spawn_edge |-> "left", coord |-> 0],
     [type_name |-> "Sporeshroom", spawn_edge |-> "bottom", coord |-> SCREEN_WIDTH]}

\* the Sproutling of the duel, the first object of its world, 100 px east of the
\* player
DuelEnemy ==
    [SpawnEnemy([type_name |-> "Sproutling", spawn_edge |-> "right", coord |-> 0], 1)
        EXCEPT !.position = Vec(SCREEN_WIDTH \div 2 + 100, SCREEN_HEIGHT \div 2)]

\* the distance between the player and the Sproutling
DuelDistance == DuelEnemy.position.x - SCREEN_WIDTH \div 2

InitDuel ==
    /\ state = "running"
    /\ highlighted = 0
    /\ \E name \in DuelWeapons :
          world = [GameWorld(name) EXCEPT !.enemies = <<DuelEnemy>>]
    /\ error = ""
    /\ next_oid = 2
    /\ frame = NoFrame
    /\ audio = <<>>
    /\ gun = create_weapon("Seed Blaster")
    /\ call = NoCall

\* world.update(dt) with the frame time the duel began with
UpdateDuel ==
    /\ frame.n < MaxDuelFrames
    /\ \E dt \in DuelDts, draw \in ParticleDraws :
          /\ frame.n = 0 \/ dt = frame.dt
          /\ Frame(dt, DuelInput, draw, DuelSpawnDraws)

NextDuel == UpdateDuel

SpecDuel == InitDuel /\ [][NextDuel]_vars

-----------------------------------------------------------------------------
(* Weapons asked for by name *)

\* the names asked for: the keys of WEAPON_DEFS, the empty name, and names that are
\* no key (unknown, wrong case, trailing blank, a prefix, a key of ENEMY_TYPES)
NameInputs ==
    DOMAIN WEAPON_DEFS \cup
    {"", "Pea Shooter", "seed blaster", "Seed Blaster ", "Thorn", "Sproutling",
     "default", "None"}

\* call is the last call made: its op and the name passed
Called(op, name) == [NoCall EXCEPT !.op = op, !.name = name]

\* world = GameWorld(weapon_name=name)
Construct(name) ==
    /\ error = ""
    /\ IF GameWorld_raises(name)
       THEN error' = "KeyError" /\ UNCHANGED world
       ELSE world' = GameWorld(name) /\ UNCHANGED error
    /\ call' = Called("GameWorld", name)
    /\ UNCHANGED <<state, highlighted, next_oid, frame, audio, gun>>

\* world.set_weapon_by_name(name)
SetWeaponByName(name) ==
    /\ error = ""
    /\ IF create_weapon_raises(name)
       THEN error' = "KeyError" /\ UNCHANGED world
       ELSE world' = set_weapon_by_name(world, name) /\ UNCHANGED error
    /\ call' = Called("set_weapon_by_name", name)
    /\ UNCHANGED <<state, highlighted, next_oid, frame, audio, gun>>

\* gun = create_weapon(name)
CreateWeapon(name) ==
    /\ error = ""
    /\ IF create_weapon_raises(name)
       THEN error' = "KeyError" /\ UNCHANGED gun
       ELSE gun' = create_weapon(name) /\ UNCHANGED error
    /\ call' = Called("create_weapon", name)
    /\ UNCHANGED <<state, highlighted, next_oid, frame, audio, world>>

NextNames ==
    \/ \E name \in NameInputs : Construct(name)
    \/ \E name \in NameInputs : SetWeaponByName(name)
    \/ \E name \in NameInputs : CreateWeapon(name)

SpecNames == Init /\ [][NextNames]_vars

-----------------------------------------------------------------------------
(* spawn_enemy_wave called directly on worlds of different ages *)

\* play times in ticks: waves of 1, 1, 2, 3 and 6 enemies
WaveElapsed == {0, 12 * TICKS - 1, 12 * TICKS, 24 * TICKS, 60 * TICKS + 5}

\* every archetype at every edge, at either end of the edge's shorter range
WaveSpawnDraws ==
    {[type_name |-> t, spawn_edge |-> e, coord |-> c] :
        t \in DOMAIN ENEMY_TYPES, e \in {"top", "bottom", "left", "right"},
        c \in {0, SCREEN_HEIGHT}}

\* worlds with and without an enemy already in them
InitWave ==
    /\ state = "running"
    /\ highlighted = 0
    /\ \E e \in WaveElapsed, old \in {<<>>, <<SpawnEnemy(CHOOSE d \in SpawnDraws : TRUE, 1)>>} :
          world = [GameWorld("Seed Blaster") EXCEPT !.elapsed = e, !.enemies = old]
    /\ error = ""
    /\ next_oid = 2
    /\ frame = NoFrame
    /\ audio = <<>>
    /\ gun = create_weapon("Seed Blaster")
    /\ call = NoCall

\* world.spawn_enemy_wave(), once
SpawnWave ==
    /\ frame.op = ""
    /\ \E wave \in WaveDraws(WaveSpawnDraws, SpawnCount(world.elapsed)) :
          world' = [world EXCEPT !.enemies = spawn_enemy_wave(world, wave, next_oid)]
    /\ next_oid' = next_oid + SpawnCount(world.elapsed)
    /\ frame' = [NoFrame EXCEPT !.op = "spawn_enemy_wave", !.spawned = SpawnCount(world.elapsed)]
    /\ audio' = <<>>
    /\ UNCHANGED <<state, highlighted, error, gun, call>>

NextWave == SpawnWave

SpecWave == InitWave /\ [][NextWave]_vars

-----------------------------------------------------------------------------
(* A Weapon driven directly: any interleaving of try_fire and update *)

\* spread angles (degrees) and projectile counts the weapons under test take; every
\* spread divides evenly by 2 and by projectiles - 1
Spreads == {0, 4, 12}
ProjectileCounts == {1, 2, 3}

TestWeapons ==
    {[create_weapon(n) EXCEPT !.spread = s, !.projectiles = k] :
        n \in DOMAIN WEAPON_DEFS, s \in Spreads, k \in ProjectileCounts}

\* frame times in ticks: 0, 0.1 s, 0.15 s, 0.5 s
WeaponDts == {0, 1000, 1500, 5000}

\* the player's position and the points aimed at: east, north, south-west, and the
\* position itself
FirePosition == Vec(SCREEN_WIDTH \div 2, SCREEN_HEIGHT \div 2)
FireTargets ==
    {VAdd(FirePosition, Vec(100, 0)), VAdd(FirePosition, Vec(0, -100)),
     VAdd(FirePosition, Vec(-100, 100)), FirePosition}

InitWeapon ==
    /\ state = "menu"
    /\ highlighted = 0
    /\ world = GameWorld("")
    /\ error = ""
    /\ next_oid = 1
    /\ frame = NoFrame
    /\ audio = <<>>
    /\ gun \in TestWeapons
    /\ call = NoCall

\* gun.try_fire(position, target)
TryFire(position, target) ==
    /\ \E r \in {try_fire(gun, position, target)} :
        /\ gun' = r.weapon
        /\ call' = [op |-> "try_fire", name |-> "", timer |-> gun.timer, ret |-> r.bullets,
                    position |-> position, target |-> target,
                    waited |-> call.since,
                    since |-> IF r.bullets # <<>> THEN 0 ELSE call.since]
    /\ UNCHANGED program_vars

\* gun.update(dt)
Tick(dt) ==
    /\ gun' = Weapon_update(gun, dt)
    /\ call' = [op |-> "update", name |-> "", timer |-> gun.timer, ret |-> <<>>,
                position |-> Vec(0, 0), target |-> Vec(0, 0),
                waited |-> call.since,
                since |-> IF call.since < 0 THEN -1 ELSE Min(call.since + dt, gun.cooldown)]
    /\ UNCHANGED program_vars

NextWeapon ==
    \/ \E target \in FireTargets : TryFire(FirePosition, target)
    \/ \E dt \in WeaponDts : Tick(dt)

SpecWeapon == InitWeapon /\ [][NextWeapon]_vars

-----------------------------------------------------------------------------
(* Properties of Weapon (SpecWeapon) *)

\* C5: the cooldown gate.  The timer is never negative; try_fire with timer > 0
\* returns no bullet and leaves the timer alone; try_fire with timer = 0 returns
\* `projectiles` bullets and sets the timer to `cooldown`; and a try_fire that comes
\* after one that returned bullets, with updates totalling less than `cooldown` in
\* between, returns none.
C5_CooldownGate ==
    /\ gun.timer >= 0
    /\ (call.op = "try_fire" /\ call.timer > 0)
          => (call.ret = <<>> /\ gun.timer = call.timer)
    /\ (call.op = "try_fire" /\ call.timer = 0)
          => (Len(call.ret) = gun.projectiles /\ gun.timer = gun.cooldown)
    /\ (call.op = "try_fire" /\ call.waited >= 0 /\ call.waited < gun.cooldown)
          => call.ret = <<>>

\* a second try_fire, after updates that total more than 0 and less than the
\* cooldown, came back empty
C5_Witness ==
    /\ call.op = "try_fire"
    /\ call.waited > 0
    /\ call.waited < gun.cooldown
    /\ call.timer > 0
    /\ call.ret = <<>>

\* the bullet try_fire builds for direction angle a (as angle_to measures it)
ShotAt(a) ==
    Bullet(call.position, VScale(rotate(-a), gun.bullet_speed), gun.color,
           gun.bullet_damage, gun.pierce)

\* C8: with projectiles > 1 and timer = 0, bullet i (0-based) flies at angle
\* base_angle - spread/2 + i * spread/(projectiles - 1), the first at
\* base_angle - spread/2 and the last at base_angle + spread/2; with 3 projectiles
\* and spread 12 the middle one flies along the aim direction; every bullet starts
\* at the origin with speed bullet_speed and the weapon's damage and pierce.
C8_SpreadAngles ==
    (call.op = "try_fire" /\ call.timer = 0 /\ gun.projectiles > 1) =>
        LET n == gun.projectiles
            aim == AimDirection(call.position, call.target)
            base_angle == angle_to(aim)
        IN /\ Len(call.ret) = n
           /\ \A i \in 0..(n - 1) :
                call.ret[i + 1] =
                    ShotAt(base_angle - gun.spread \div 2 + (i * gun.spread) \div (n - 1))
           /\ call.ret[1] = ShotAt(base_angle - gun.spread \div 2)
           /\ call.ret[n] = ShotAt(base_angle + gun.spread \div 2)
           /\ (n = 3 /\ gun.spread = 12) =>
                call.ret[2].velocity = VScale(normalize(aim), gun.bullet_speed)

\* three projectiles over a spread of 12 degrees were fired
C8_Witness ==
    /\ call.op = "try_fire"
    /\ call.timer = 0
    /\ gun.projectiles = 3
    /\ gun.spread = 12
    /\ Len(call.ret) = 3
    /\ call.ret[1].velocity # call.ret[3].velocity

\* C9: a weapon with exactly 1 projectile ignores its spread: the single bullet
\* flies along the aim direction.
C9_SingleShotIgnoresSpread ==
    (call.op = "try_fire" /\ call.timer = 0 /\ gun.projectiles = 1) =>
        /\ Len(call.ret) = 1
        /\ call.ret[1].velocity =
              VScale(normalize(AimDirection(call.position, call.target)), gun.bullet_speed)

-----------------------------------------------------------------------------
(* Properties of GameWorld (Spec, SpecSwarm) *)

\* the elements of a sequence
Range(seq) == {seq[k] : k \in 1..Len(seq)}

\* C1: an enemy removed by the player-contact check of a frame is not given to the
\* bullet-hit check of that frame: no bullet damages it.
C1_ContactSkipsBulletCheck ==
    \A k \in 1..Len(frame.hits) : frame.hits[k].enemy \notin Range(frame.contacts)

\* C2: the score is 5 times the number of enemies killed by bullet damage; an enemy
\* killed by player contact adds nothing.
C2_ScoreCountsBulletKills == world.score = 5 * frame.kills

\* C3: GameWorld.update never raises: every enemies.remove finds its enemy.
C3_UpdateNeverRaises == error = ""

\* C4: after construction and after every update the player is inside
\* [left + radius, right - radius] x [top + radius, bottom - radius].
C4_PlayerInBounds ==
    LET p == world.player
        b == world.bounds
    IN /\ b.left + p.radius <= p.position.x
       /\ p.position.x <= b.left + b.width - p.radius
       /\ b.top + p.radius <= p.position.y
       /\ p.position.y <= b.top + b.height - p.radius

\* the player was moved up in every one of at least 11 frames of 0.1 s and stands at
\* the top limit, where only the clamp can have put it (24 px a frame from y = 270)
C4_Witness ==
    /\ state = "running"
    /\ frame.n >= 11
    /\ world.player.position.y = world.bounds.top + world.player.radius

C10_OneBulletPerEnemy ==
    \A k, m \in 1..Len(frame.hits) :
        frame.hits[k].enemy = frame.hits[m].enemy => k = m

\* an enemy of the world had several live bullets inside its box and was hit
C10_Witness ==
    \E k \in 1..Len(frame.hits) :
        /\ frame.hits[k].inside >= 2
        /\ frame.hits[k].in_world
        /\ error = ""

\* the identities of a list of objects
Oids(seq) == {seq[k].oid : k \in 1..Len(seq)}

\* C11: an update whose combat pass leaves the player dead halts spawning: it leaves
\* spawn_timer and spawn_interval alone and adds no enemy, however long the frame
\* and however many updates of a dead player follow each other.
C11_DeadHaltsSpawning ==
    [][(frame'.op = "update" /\ frame'.n = frame.n + 1 /\ world'.player.health <= 0) =>
          /\ world'.spawn_timer = world.spawn_timer
          /\ world'.spawn_interval = world.spawn_interval
          /\ Oids(world'.enemies) \subseteq Oids(world.enemies)]_vars

\* a player that was dead before the frame was updated once more, for a frame time
\* no shorter than the time left on spawn_timer
C11_Witness ==
    /\ frame.op = "update"
    /\ frame.health_before = 0
    /\ world.player.health = 0
    /\ error = ""
    /\ frame.dt > 0
    /\ world.spawn_timer <= frame.dt

\* play times in ticks at which the reset value is compared: 0, one tick, 60 s,
\* either side of 100 s, where the floor takes over, and far beyond it
ElapsedSamples ==
    {0, 1, 60 * TICKS, 100 * TICKS - 1, 100 * TICKS, 100 * TICKS + 100, 120 * TICKS,
     1000 * TICKS, 100000 * TICKS}

\* C12: an update that spawns a wave resets spawn_timer to
\* max(0.4, spawn_interval - elapsed * 0.01) with spawn_interval = 1.4; the reset value
\* never grows with elapsed, is strictly smaller at elapsed = 60 than at elapsed = 0,
\* and is never below 0.4.
C12_SpawnTimerReset ==
    /\ world.spawn_interval = 14000
    /\ (frame.op = "update" /\ frame.spawned > 0) =>
          LET linear == 14000 - world.elapsed \div 100
          IN /\ world.spawn_timer >= 4000
             /\ world.spawn_timer >= linear
             /\ world.spawn_timer \in {4000, linear}
    /\ \A e1 \in ElapsedSamples, e2 \in ElapsedSamples :
          e1 <= e2 => SpawnDelay(world.spawn_interval, e2) <= SpawnDelay(world.spawn_interval, e1)
    /\ SpawnDelay(world.spawn_interval, 60 * TICKS) < SpawnDelay(world.spawn_interval, 0)
    /\ \A e \in ElapsedSamples : SpawnDelay(world.spawn_interval, e) >= 4000

\* a wave was spawned after two minutes of play, where the floor of 0.4 s applies
C12_Witness ==
    /\ frame.op = "update"
    /\ frame.spawned > 0
    /\ error = ""
    /\ world.elapsed >= 120 * TICKS
    /\ world.spawn_timer = 4000

\* an enemy as a wave makes it: at full health of its archetype, outside one edge of
\* the arena by its own size
FreshEnemy(e) ==
    /\ e.name \in DOMAIN ENEMY_TYPES
    /\ e.health = ENEMY_TYPES[e.name].health
    /\ e.max_health = e.health
    /\ e.size = ENEMY_TYPES[e.name].size
    /\ \/ e.position.y = -e.size /\ e.position.x \in 0..SCREEN_WIDTH
       \/ e.position.y = SCREEN_HEIGHT + e.size /\ e.position.x \in 0..SCREEN_WIDTH
       \/ e.position.x = -e.size /\ e.position.y \in 0..SCREEN_HEIGHT
       \/ e.position.x = SCREEN_WIDTH + e.size /\ e.position.y \in 0..SCREEN_HEIGHT

\* C13: a call of spawn_enemy_wave appends exactly 1 + floor(elapsed / 12) enemies to
\* the enemies it finds, each at the full health of an archetype of ENEMY_TYPES and
\* outside one of the four edges of the arena by its size.
C13_WaveSize ==
    [][frame'.op = "spawn_enemy_wave" =>
          LET before == Len(world.enemies)
              after == Len(world'.enemies)
          IN /\ after = before + 1 + world.elapsed \div (12 * TICKS)
             /\ SubSeq(world'.enemies, 1, before) = world.enemies
             /\ \A k \in (before + 1)..after :
                  /\ FreshEnemy(world'.enemies[k])
                  /\ world'.enemies[k].oid \notin Oids(world.enemies)
             /\ Cardinality(Oids(world'.enemies)) = after]_vars

\* a minute into play a wave of six was added to the enemy already there, with two
\* archetypes and two edges among them
C13_Witness ==
    /\ frame.op = "spawn_enemy_wave"
    /\ Len(world.enemies) = 7
    /\ world.enemies[6].name # world.enemies[7].name
    /\ world.enemies[6].position.y = -world.enemies[6].size
    /\ world.enemies[7].position.x = SCREEN_WIDTH + world.enemies[7].size

\* C14: reset yields the state of a freshly constructed GameWorld with the weapon
\* selected before: no enemies, bullets or particles, elapsed, spawn_timer and score 0,
\* the player at the arena's centre with health 100, weapon_name as it was and a new
\* weapon of that name with timer 0; "power" is emitted exactly when a weapon was
\* selected.
C14_ResetIsFresh ==
    [][(frame'.op = "reset" /\ frame.op # "reset") =>
          /\ world' = GameWorld(world.weapon_name)
          /\ world'.enemies = <<>> /\ world'.bullets = <<>> /\ world'.particles = <<>>
          /\ world'.elapsed = 0 /\ world'.spawn_timer = 0 /\ world'.score = 0
          /\ world'.player.health = 100
          /\ world'.player.position = Vec(SCREEN_WIDTH \div 2, SCREEN_HEIGHT \div 2)
          /\ world'.weapon_name = world.weapon_name
          /\ world'.player.weapon =
                (IF world.weapon_name = "" THEN <<>>
                 ELSE <<[world.player.weapon[1] EXCEPT !.timer = 0]>>)
          /\ ("power" \in Range(audio')) <=> (world.weapon_name # "")
          /\ Len(audio') <= 1]_vars

\* a world that had seen play with the Thorn Fork was reset
C14_Witness ==
    /\ frame.op = "reset"
    /\ state = "running"
    /\ world.weapon_name = "Thorn Fork"
    /\ world.player.weapon # <<>>
    /\ audio = <<"power">>

\* C15: the collision pass runs before the pruning of dead bullets, so a bullet
\* killed by a hit is pruned in the same frame: when update returns, every bullet in
\* world.bullets is alive.
C15_BulletsAlive ==
    \A k \in 1..Len(world.bullets) : world.bullets[k].alive

\* the Sproutling of the duel is gone after two bullets hit it, the score is 5 and the
\* player was never touched
DuelWon ==
    /\ error = ""
    /\ DuelEnemy.oid \notin Oids(world.enemies)
    /\ world.score = 5
    /\ world.player.health = 100
    /\ Cardinality({p \in frame.damaged : p[2] = DuelEnemy.oid}) = 2

\* the time in ticks by which the second shot has landed: one cooldown, and the
\* flight of a bullet over the whole distance
DuelDeadline ==
    LET w == WEAPON_DEFS["Seed Blaster"]
    IN w.cooldown + (DuelDistance * TICKS) \div w.bullet_speed

\* C16: a world with the Seed Blaster and one Sproutling 100 px east of the player,
\* stepped at a fixed frame time with the fire button held and the aim east, reaches
\* a state after the second shot's hit where the enemy is gone and the score is 5,
\* without the enemy having touched the player: every such run has got there once
\* its frames add up to the deadline and one frame more.
C16_DuelIsWon ==
    (/\ world.weapon_name = "Seed Blaster"
     /\ frame.op = "update"
     /\ frame.n * frame.dt >= DuelDeadline + frame.dt) => DuelWon

\* the frame in which the second bullet kills the Sproutling of the duel
C16_Witness ==
    /\ world.weapon_name = "Seed Blaster"
    /\ DuelWon
    /\ \E k \in 1..Len(frame.hits) :
          frame.hits[k].enemy = DuelEnemy.oid /\ frame.hits[k].killed

\* C17: every enemy whose box intersects the player's square box (side 2 * radius,
\* centred on the player) in handle_collisions takes exactly 10 off the player's
\* health (before the floor at 0) and is removed from enemies in the same frame,
\* whatever health it had left.
C17_ContactIsLethal ==
    frame.op = "update" =>
        LET p == world.player
            player_rect == Rect(p.position.x - p.radius, p.position.y - p.radius,
                                p.radius * 2, p.radius * 2)
            raw == frame.health_before - 10 * Len(frame.contacts)
        IN /\ p.health \in {raw, Max(0, raw)}
           /\ Range(frame.contacts) \cap Oids(world.enemies) = {}
           /\ \A k \in 1..Len(world.enemies) :
                ~colliderect(Enemy_rect(world.enemies[k]), player_rect)

\* C18: GameWorld(weapon_name), set_weapon_by_name and create_weapon, given a name
\* that is no key of WEAPON_DEFS, fail with an error and equip no weapon, default or
\* substitute; so for every name passed that is not recognized.
C18_UnknownNameRejected ==
    [][(/\ error = ""
        /\ call' # call
        /\ call'.op \in {"GameWorld", "set_weapon_by_name", "create_weapon"}
        /\ call'.name \notin DOMAIN WEAPON_DEFS) =>
          /\ error' # ""
          /\ world' = world
          /\ gun' = gun]_vars

\* C19: with the fire button held, the frame times from the frame after one that
\* added bullets up to and including the next frame that adds bullets sum to at
\* least the weapon's cooldown; and a frame adds bullets, and emits "shoot", exactly
\* when the button is pressed, a weapon is equipped, the player's health is above 0
\* and the weapon's timer, once this frame's dt is taken off it, is 0.
C19_FireCadence ==
    [][(frame'.op = "update" /\ frame'.n = frame.n + 1) =>
          LET f == frame'
              armed == world.player.weapon # <<>>
          IN /\ (f.fired > 0 /\ f.waited >= 0) =>
                    f.waited + f.dt >= world.player.weapon[1].cooldown
             /\ (f.fired > 0) <=>
                    (/\ f.pressed
                     /\ armed
                     /\ world.player.health > 0
                     /\ Max(0, world.player.weapon[1].timer - f.dt) = 0)
             /\ (f.fired > 0) <=> ("shoot" \in Range(audio'))
             /\ (f.fired > 0) => (next_oid' > next_oid)]_vars

\* a second volley was fired, the frames since the first adding up to the cooldown
C19_Witness ==
    /\ frame.op = "update"
    /\ frame.fired > 0
    /\ frame.waited > 0
    /\ "shoot" \in Range(audio)
    /\ frame.waited + frame.dt >= world.player.weapon[1].cooldown

\* C20: over its whole life a bullet never damages the same enemy twice, so a bullet
\* made with pierce p damages at most p + 1 enemies, all different.
C20_NoRepeatDamage ==
    /\ \A k \in 1..Len(frame.hits) :
          /\ <<frame.hits[k].bullet, frame.hits[k].enemy>> \notin frame.damaged_before
          /\ \A m \in 1..Len(frame.hits) :
                (/\ frame.hits[m].bullet = frame.hits[k].bullet
                 /\ frame.hits[m].enemy = frame.hits[k].enemy) => m = k
    /\ \A p \in frame.damaged :
          Cardinality({q \in frame.damaged : q[1] = p[1]}) <= world.player.weapon[1].pierce + 1

\* C21: after every update that returns, every enemy left in world.enemies has
\* health > 0; an enemy brought to health <= 0 by a bullet or by contact with the
\* player is gone from the collection when that update ends.
C21_NoDeadEnemyRemains ==
    (frame.op = "update" /\ error = "") =>
        /\ \A k \in 1..Len(world.enemies) : world.enemies[k].health > 0
        /\ \A k \in 1..Len(frame.hits) :
              frame.hits[k].killed => frame.hits[k].enemy \notin Oids(world.enemies)
        /\ \A k \in 1..Len(frame.contacts) : frame.contacts[k] \notin Oids(world.enemies)

\* an update that returned after one of its bullets killed an enemy
C21_Witness ==
    /\ frame.op = "update" /\ error = ""
    /\ \E k \in 1..Len(frame.hits) : frame.hits[k].killed /\ frame.hits[k].in_world

\* C22: between resets player.health never goes up from one update to the next, and
\* once it is 0 it is 0 after every later update of that world, whatever touches
\* the player.
C22_DefeatIsAbsorbing ==
    [][(frame'.op = "update" /\ frame'.n = frame.n + 1) =>
          /\ world'.player.health <= world.player.health
          /\ world.player.health = 0 => world'.player.health = 0]_vars

\* C23: an update that starts with player.health = 0 adds no bullet and plays no
\* shot, whatever the fire button and the weapon timer are: the timer only counts
\* down, and the bullets already in flight each move on by velocity * dt.
C23_DeadPlayerHoldsFire ==
    [][(frame'.op = "update" /\ frame'.n = frame.n + 1 /\ world.player.health = 0) =>
          /\ frame'.fired = 0
          /\ Oids(world'.bullets) \subseteq Oids(world.bullets)
          /\ "shoot" \notin Range(audio')
          /\ \A k \in 1..Len(world.player.weapon) :
                world'.player.weapon[k].timer =
                    Max(0, world.player.weapon[k].timer - frame'.dt)
          /\ \A k \in 1..Len(world'.bullets), m \in 1..Len(world.bullets) :
                world'.bullets[k].oid = world.bullets[m].oid =>
                    world'.bullets[k].position =
                        VAdd(world.bullets[m].position,
                             VStep(world.bullets[m].velocity, frame'.dt))]_vars

\* an update of a dead player with the fire button held and the weapon timer at 0
C23_Witness ==
    /\ frame.op = "update"
    /\ frame.health_before = 0
    /\ frame.pressed
    /\ frame.timer_before - frame.dt <= 0
    /\ frame.fired = 0

\* C24: the first update with dt > 0 of a new or reset world spawns a wave while the
\* player is alive; one update adds at most one wave (spawn_count enemies) however
\* large dt is; and after every update that reaches the spawn step with the player
\* alive, 0 < spawn_timer <= 1.4 s.
C24_SpawnScheduling ==
    [][(frame'.op = "update" /\ frame'.n = frame.n + 1) =>
          LET fresh == Oids(world'.enemies) \ Oids(world.enemies)
              alive == error' = "" /\ world'.player.health > 0
          IN /\ Cardinality(fresh) \in {0, SpawnCount(world'.elapsed)}
             /\ frame'.spawned = Cardinality(fresh)
             /\ (alive /\ frame'.n = 1 /\ frame'.dt > 0) =>
                    Cardinality(fresh) = SpawnCount(world'.elapsed)
             /\ alive => /\ 0 < world'.spawn_timer
                         /\ world'.spawn_timer <= GameWorld("").spawn_interval]_vars

\* the first update of a world took 120 s and spawned one wave, of eleven
C24_Witness ==
    /\ frame.op = "update" /\ error = ""
    /\ frame.n = 1
    /\ frame.dt >= 120 * TICKS
    /\ frame.spawned = SpawnCount(world.elapsed)
    /\ Len(world.enemies) = 11

\* C25: world.update runs only in state "running"; a world that enters "running"
\* has a weapon equipped; world.reset() runs only in state "running", on an R key
\* press while player.health <= 0; and an R key press while the player is alive
\* leaves the world as it is.
C25_MainLoop ==
    [][/\ (frame'.op = "update" /\ frame'.n = frame.n + 1) =>
             state = "running" /\ state' = "running"
       /\ (state # "running" /\ state' = "running") =>
             /\ world'.player.weapon # <<>>
             /\ world'.weapon_name \in DOMAIN WEAPON_DEFS
             /\ world'.player.weapon[1].name = world'.weapon_name
       /\ (frame'.op = "reset" /\ frame.op # "reset") =>
             /\ state = "running" /\ state' = "running"
             /\ world.player.health <= 0
             /\ RunningR
       /\ (RunningR /\ world.player.health > 0) => world' = world]_vars

\* the world of a game that was lost and then reset with R
C25_Witness ==
    /\ state = "running"
    /\ frame.op = "reset"
    /\ world.player.health > 0
    /\ world.player.weapon # <<>>

====
